---- MODULE Spec2Model ----
(***************************************************************************)
(* AutoHPO: query normalization, the primary (Meilisearch) search client,  *)
(* the in-memory fallback search over data/hp.json, the search funnel and  *)
(* the batch term resolver.                                                *)
(*                                                                         *)
(* Python strings are sequences of one-character strings.  A Python        *)
(* function with side effects is an operator from the state it reads to a  *)
(* record holding what it returns (or that it raised) and the state it     *)
(* leaves; each action applies one public entry point to inputs drawn from *)
(* small sets and records the call and its outcome in `last`.              *)
(***************************************************************************)
EXTENDS Integers, Sequences, FiniteSets, TLC

VARIABLES
    hpFile,            \* data/hp.json on disk (environment)
    _terms,            \* app/search.py: _terms
    _client,           \* app/hpo.py: _client
    _index,            \* app/hpo.py: _index
    _embedding_model,  \* app/hpo.py: _embedding_model
    embEnv,            \* whether sentence-transformers can be imported and loaded
    MEILISEARCH_URL,   \* os.environ["MEILISEARCH_URL"]; "" when unset or empty
    configured,        \* the clients whose session _configure_session has set up
    threads,           \* the threads running inside app/hpo.py, step by step
    last               \* the last call made and its outcome

vars ==
    <<hpFile, _terms, _client, _index, _embedding_model, embEnv, MEILISEARCH_URL,
      configured, threads, last>>

(***************************************************************************)
(* Bounds of the model.                                                    *)
(***************************************************************************)
MaxLen == 5      \* longest raw string given to the query normalizer
MaxLimit == 2    \* largest limit given to a search
MaxTerms == 2    \* longest list of terms given to the batch resolver
MaxThreads == 2  \* threads that can be inside app/hpo.py at once

(***************************************************************************)
(* Strings.                                                                *)
(***************************************************************************)
Min(a, b) == IF a <= b THEN a ELSE b

\* str.isspace for the characters of the model
IsSpace(c) == c \in {" ", "\t", "\n"}

\* str.upper, one character
UpperChar(c) ==
    CASE c = "a" -> "A"
      [] c = "b" -> "B"
      [] c = "d" -> "D"
      [] c = "h" -> "H"
      [] c = "p" -> "P"
      [] c = "s" -> "S"
      [] c = "x" -> "X"
      [] c = "z" -> "Z"
      [] OTHER -> c

\* str.upper
Upper(s) == [i \in 1..Len(s) |-> UpperChar(s[i])]

\* str.strip(): leading and trailing whitespace removed
Strip(s) ==
    LET keep == {i \in 1..Len(s) : ~IsSpace(s[i])}
    IN  IF keep = {} THEN <<>>
        ELSE LET lo == CHOOSE i \in keep : \A j \in keep : i <= j
                 hi == CHOOSE i \in keep : \A j \in keep : j <= i
             IN  SubSeq(s, lo, hi)

\* str.split() with no separator: the maximal runs of non-whitespace, in order
RECURSIVE SplitFrom(_, _)
SplitFrom(s, i) ==
    IF i > Len(s) THEN <<>>
    ELSE IF IsSpace(s[i]) THEN SplitFrom(s, i + 1)
    ELSE LET stops == {j \in i..Len(s) : IsSpace(s[j])}
             e == IF stops = {} THEN Len(s) + 1
                  ELSE CHOOSE j \in stops : \A k \in stops : j <= k
         IN  <<SubSeq(s, i, e - 1)>> \o SplitFrom(s, e)

\* a split that also breaks a token at the colon of an identifier
SplitAtPunctuation(s) ==
    SplitFrom([i \in 1..Len(s) |-> IF s[i] = ":" THEN " " ELSE s[i]], 1)

Split(s) == SplitFrom(s, 1)

\* sep.join(parts)
RECURSIVE Join(_, _)
Join(parts, sep) ==
    IF parts = <<>> THEN <<>>
    ELSE IF Len(parts) = 1 THEN parts[1]
    ELSE parts[1] \o sep \o Join(Tail(parts), sep)

\* `sub in s`
Contains(s, sub) ==
    \E i \in 1..(Len(s) - Len(sub) + 1) : SubSeq(s, i, i + Len(sub) - 1) = sub

\* s.replace(old, new, 1) for a one-character old
ReplaceFirst(s, old, new) ==
    LET at == {i \in 1..Len(s) : s[i] = old}
    IN  IF at = {} THEN s
        ELSE LET i == CHOOSE k \in at : \A j \in at : k <= j
             IN  SubSeq(s, 1, i - 1) \o new \o SubSeq(s, i + 1, Len(s))

\* s.split("/")[-1]
LastSegment(s) ==
    LET at == {i \in 1..Len(s) : s[i] = "/"}
    IN  IF at = {} THEN s
        ELSE LET i == CHOOSE k \in at : \A j \in at : j <= k
             IN  SubSeq(s, i + 1, Len(s))

\* the slice taking one element more, s[:n + 1]
PrefixInclusive(s, n) == SubSeq(s, 1, Min(n + 1, Len(s)))

\* s[:n] for n >= 0
Prefix(s, n) == SubSeq(s, 1, Min(n, Len(s)))

\* a string of n copies of c
Rep(c, n) == [i \in 1..n |-> c]

(***************************************************************************)
(* Ontology records and the snapshot source file.                          *)
(***************************************************************************)
\* the scheme and host of an OBO IRI, up to and including the last "/"
Iri == <<"u", ":", "/", "/", "o", "/">>

\* search.py:111, search.py:130, hpo.py:163, hpo.py:206, hpo.py:235: [:500]
DefinitionLimit == 500

LongDefinition == Rep("z", DefinitionLimit + 1)

\* nodes of an obographs export: id, lbl, meta.definition.val, meta.synonyms[].val
NodesA ==
    << [id |-> Iri \o <<"h", "p", "_", "1">>, lbl |-> <<" ", "A", "s", "d">>,
        defn |-> <<"d", "a", " ">>, syns |-> << <<"x", "a">>, <<" ", "b">> >>],
       [id |-> <<"H", "P", "_", "2">>, lbl |-> <<"a", "s">>,
        defn |-> <<"z">>, syns |-> <<>>],
       [id |-> Iri \o <<"H", "P", "_", "3", "_", "4">>, lbl |-> <<"b">>,
        defn |-> <<>>, syns |-> << <<"s">> >>],
       [id |-> <<>>, lbl |-> <<"p">>, defn |-> <<>>, syns |-> <<>>] >>

NodesB ==
    << [id |-> <<"H", "P", "_", "2">>, lbl |-> <<"x", "x">>,
        defn |-> LongDefinition, syns |-> <<>>] >>

\* what data/hp.json can be: absent, not JSON, or an export with some nodes
FileStates ==
    { [kind |-> "missing", nodes |-> <<>>],
      [kind |-> "unparseable", nodes |-> <<>>],
      [kind |-> "ok", nodes |-> <<>>],
      [kind |-> "ok", nodes |-> NodesA],
      [kind |-> "ok", nodes |-> NodesB] }

(***************************************************************************)
(* app/search.py: the fallback search engine.                              *)
(***************************************************************************)
_normalize_query(query) ==
    IF Strip(query) = <<>> THEN <<>>
    ELSE Join(Split(Strip(query)), <<" ">>)

_curie_from_id(node_id) ==
    IF node_id = <<>> THEN <<>>
    ELSE IF Contains(node_id, <<":", "/", "/">>)
    THEN LET part == LastSegment(node_id)
         IN  IF Contains(part, <<"_">>)
             THEN LET at == CHOOSE i \in 1..Len(part) :
                                /\ part[i] = "_"
                                /\ \A j \in 1..(i - 1) : part[j] # "_"
                      ns == SubSeq(part, 1, at - 1)
                      rest == SubSeq(part, at + 1, Len(part))
                  IN  Upper(ns) \o <<":">> \o rest
             ELSE part
    ELSE IF Contains(node_id, <<"_">>) THEN ReplaceFirst(node_id, "_", <<":">>)
    ELSE node_id

\* the synonyms with a value, each stripped
RECURSIVE SynonymVals(_)
SynonymVals(syns) ==
    IF syns = <<>> THEN <<>>
    ELSE IF syns[1] # <<>> THEN <<Strip(syns[1])>> \o SynonymVals(Tail(syns))
    ELSE SynonymVals(Tail(syns))

\* one node of a graph to one term of the snapshot
ParseNode(node) ==
    [hpo_id |-> _curie_from_id(node.id),
     name |-> Strip(node.lbl),
     definition |-> Strip(node.defn),
     synonyms_str |-> Join(SynonymVals(node.syns), <<" ", "|", " ">>)]

_parse_obographs(nodes) == [i \in 1..Len(nodes) |-> ParseNode(nodes[i])]

\* init_app() without its `if _terms: return`: every call loads the file
init_app_reload(file, terms) ==
    IF file.kind = "missing" THEN [terms |-> terms, raised |-> FALSE, reads |-> 0]
    ELSE IF file.kind = "unparseable" THEN [terms |-> terms, raised |-> TRUE, reads |-> 1]
    ELSE [terms |-> _parse_obographs(file.nodes), raised |-> FALSE, reads |-> 1]

\* init_app(): what it leaves in _terms, whether it raised, and how often it
\* opened the file
init_app(file, terms) ==
    IF terms # <<>> THEN [terms |-> terms, raised |-> FALSE, reads |-> 0]
    ELSE IF file.kind = "missing" THEN [terms |-> terms, raised |-> FALSE, reads |-> 0]
    ELSE IF file.kind = "unparseable" THEN [terms |-> terms, raised |-> TRUE, reads |-> 1]
    ELSE [terms |-> _parse_obographs(file.nodes), raised |-> FALSE, reads |-> 1]

\* the record search and get_term_by_id build from a term
Emit(t) ==
    [hpo_id |-> t.hpo_id,
     name |-> t.name,
     definition |-> Prefix(t.definition, DefinitionLimit),
     synonyms_str |-> t.synonyms_str]

\* the pattern compiled without re.IGNORECASE
PatternSearchCaseSensitive(q, field) == Contains(field, q)

\* re.compile(re.escape(q), re.IGNORECASE).search(field)
PatternSearch(q, field) == Contains(Upper(field), Upper(q))

\* the match condition looking at the name only
TermMatchesNameOnly(q, t) == PatternSearch(q, t.name)

TermMatches(q, t) ==
    \/ PatternSearch(q, t.hpo_id)
    \/ PatternSearch(q, t.name)
    \/ PatternSearch(q, t.definition)
    \/ PatternSearch(q, t.synonyms_str)

\* the loop of search: scan from term i on, `matched` collected so far
RECURSIVE ScanTerms(_, _, _, _, _)
ScanTerms(terms, i, q, limit, matched) ==
    IF i > Len(terms) THEN matched
    ELSE IF TermMatches(q, terms[i])
    THEN LET m2 == Append(matched, Emit(terms[i]))
         IN  IF Len(m2) >= limit THEN m2
             ELSE ScanTerms(terms, i + 1, q, limit, m2)
    ELSE ScanTerms(terms, i + 1, q, limit, matched)

\* search(query, limit); shared tells that the dicts returned are the dicts
\* of _terms themselves (the slice _terms[:limit] copies the list, not them)
search(file, terms, query, limit) ==
    LET ia == init_app(file, terms)
        q == Strip(query)
    IN  IF ia.raised
        THEN [status |-> "raise", results |-> <<>>, terms |-> ia.terms,
              reads |-> ia.reads, shared |-> FALSE]
        ELSE [status |-> "ok",
              results |-> IF ia.terms = <<>> THEN <<>>
                          ELSE IF q = <<>> THEN Prefix(ia.terms, limit)
                          ELSE ScanTerms(ia.terms, 1, q, limit, <<>>),
              terms |-> ia.terms, reads |-> ia.reads,
              shared |-> ia.terms # <<>> /\ q = <<>>]

\* get_terms(): the list _terms itself
get_terms(terms) == [results |-> terms, shared |-> TRUE]

\* the first term whose id equals q case-insensitively, as a list of 0 or 1
RECURSIVE FirstById(_, _, _)
FirstById(terms, i, q) ==
    IF i > Len(terms) THEN <<>>
    ELSE IF Upper(terms[i].hpo_id) = Upper(q) THEN <<Emit(terms[i])>>
    ELSE FirstById(terms, i + 1, q)

\* get_term_by_id(term_id); None is the empty list
get_term_by_id(file, terms, term_id) ==
    LET ia == init_app(file, terms)
        q == IF Contains(term_id, <<"_">>)
             THEN ReplaceFirst(Strip(term_id), "_", <<":">>)
             ELSE Strip(term_id)
    IN  IF ia.raised
        THEN [status |-> "raise", found |-> <<>>, terms |-> ia.terms, reads |-> ia.reads]
        ELSE [status |-> "ok",
              found |-> IF ia.terms = <<>> THEN <<>> ELSE FirstById(ia.terms, 1, q),
              terms |-> ia.terms, reads |-> ia.reads]

(***************************************************************************)
(* app/hpo.py: the primary search client.  The module state is the record  *)
(* st = [client, index, model]; "None" is Python's None.                   *)
(***************************************************************************)
\* hpo.py:26: the embedder named in a hybrid request
HPO_EMBEDDING_MODEL == "all-MiniLM-L6-v2"

\* whether `from sentence_transformers import SentenceTransformer` and the
\* load of the model succeed, raise ImportError, or raise something else
EmbEnvs == {"ok", "notinstalled", "loadfails"}

\* documents of the backend index, as scripts/load_hpo.py pushes them
Doc1 ==
    [id |-> <<"H", "P", "_", "1">>, hpo_id |-> <<"H", "P", ":", "1">>,
     name |-> <<"A", "s", "d">>, definition |-> <<"d", "a">>,
     synonyms_str |-> <<"x", "a">>]

Doc2 ==
    [id |-> <<"H", "P", "_", "2">>, hpo_id |-> <<"H", "P", ":", "2">>,
     name |-> <<"a", "s">>, definition |-> LongDefinition,
     synonyms_str |-> <<>>]

\* what one call of the backend can do: answer with hits, be unreachable,
\* answer with something that is not a mapping; and whether encoding the
\* query raises.  "malformed" is a response that is no mapping, "badhits" one
\* whose hits are no mappings (hits then only counts them)
BackendScenarios ==
    { [outcome |-> "ok", hits |-> h, embed |-> "ok"] :
          h \in {<<>>, <<Doc1>>, <<Doc2, Doc1>>} }
    \cup { [outcome |-> "unreachable", hits |-> <<>>, embed |-> "ok"],
           [outcome |-> "malformed", hits |-> <<>>, embed |-> "ok"],
           [outcome |-> "badhits", hits |-> <<Doc1>>, embed |-> "ok"],
           [outcome |-> "ok", hits |-> <<Doc1>>, embed |-> "error"] }

\* what the environment can hold for MEILISEARCH_URL
MeiliUrls == {"", "http://meili:7700"}

\* init_app(): the state it leaves and whether it raised; the client is the
\* url it was built for
hpo_init_app(st, env) ==
    LET url == IF MEILISEARCH_URL # "" THEN MEILISEARCH_URL
               ELSE "http://localhost:7700"
        s1 == IF st.client = "None"
              THEN [st EXCEPT !.client = url, !.index = "index"]
              ELSE st
    IN  IF s1.model # "None" THEN [st |-> s1, raised |-> FALSE]
        ELSE IF env = "ok" THEN [st |-> [s1 EXCEPT !.model = "model"], raised |-> FALSE]
        ELSE IF env = "notinstalled" THEN [st |-> s1, raised |-> FALSE]
        ELSE [st |-> s1, raised |-> TRUE]

\* get_client()
get_client(st, env) ==
    LET r == IF st.client = "None" THEN hpo_init_app(st, env)
             ELSE [st |-> st, raised |-> FALSE]
    IN  IF r.raised THEN r
        ELSE [st |-> r.st, raised |-> r.st.client = "None"]

\* get_index()
get_index(st, env) ==
    IF st.index # "None" THEN [st |-> st, raised |-> FALSE]
    ELSE LET r == get_client(st, env)
         IN  IF r.raised THEN r
             ELSE [st |-> [r.st EXCEPT !.index = "index"], raised |-> FALSE]

\* _embed_query(text): "None", "vector", or "raise" when encode raises
_embed_query(st, text, bk) ==
    IF Strip(text) = <<>> THEN "None"
    ELSE IF st.model = "None" THEN "None"
    ELSE IF bk.embed = "error" THEN "raise"
    ELSE "vector"

\* s.replace("  ", " "): one pass, left to right, over non-overlapping pairs
RECURSIVE CollapsePairs(_)
CollapsePairs(s) ==
    IF Len(s) < 2 THEN s
    ELSE IF s[1] = " " /\ s[2] = " " THEN <<" ">> \o CollapsePairs(SubSeq(s, 3, Len(s)))
    ELSE <<s[1]>> \o CollapsePairs(Tail(s))

\* prepare_search_query collapsing with query.strip().replace("  ", " ")
prepare_search_query_one_pass(query) == CollapsePairs(Strip(query))

\* the stop words the tests of remove_stop_words name
StopWords ==
    { <<"a">>, <<"t", "h", "e">>, <<"w", "i", "t", "h">>, <<"a", "n", "d">>,
      <<"h", "a", "s">>, <<"o", "r">> }

WithoutStopWords(tokens) == SelectSeq(tokens, LAMBDA w : w \notin StopWords)

\* prepare_search_query dropping the stop words, and keeping them when
\* nothing else is left
prepare_search_query_stop_words(query) ==
    IF WithoutStopWords(Split(query)) # <<>>
    THEN Join(WithoutStopWords(Split(query)), <<" ">>)
    ELSE Join(Split(query), <<" ">>)

\* prepare_search_query(query)
prepare_search_query(query) ==
    IF Strip(query) = <<>> THEN <<>>
    ELSE Join(Split(Strip(query)), <<" ">>)

\* the hit passed on as it came, with every key of the index document
ProjectAllKeys(h) == [h EXCEPT !.definition = Prefix(h.definition, DefinitionLimit)]

\* the record built from a hit
Project(h) ==
    [hpo_id |-> h.hpo_id,
     name |-> h.name,
     definition |-> Prefix(h.definition, DefinitionLimit),
     synonyms_str |-> h.synonyms_str]

\* search parameters with the vector but without the hybrid embedder
ParamsVectorOnly(limit, vector) ==
    [keys |-> IF vector = "none" THEN {"limit"} ELSE {"limit", "vector"},
     limit |-> limit,
     vector |-> vector,
     embedder |-> ""]

\* search parameters: the keys present, and the value of each (vector is "raw"
\* for the list of floats and "dims" for the "[N dims]" placeholder)
Params(limit, vector) ==
    [keys |-> IF vector = "none" THEN {"limit"} ELSE {"limit", "vector", "hybrid"},
     limit |-> limit,
     vector |-> vector,
     embedder |-> IF vector = "none" THEN "" ELSE HPO_EMBEDDING_MODEL]

NoParams == [keys |-> {}, limit |-> 0, vector |-> "none", embedder |-> ""]

NoRequest == [sent |-> FALSE, q |-> <<>>, params |-> NoParams]

\* search_hpo(query, limit): the JSON list it returns, or that it raised; the
\* request the index received, if any
search_hpo(st, env, query, limit, bk) ==
    LET q == prepare_search_query(query)
        search_q == IF q # <<>> THEN q ELSE Strip(query)
        gi == get_index(st, env)
        query_vector == IF search_q # <<>> THEN _embed_query(gi.st, search_q, bk)
                        ELSE "None"
        search_params == Params(limit, IF query_vector = "vector" THEN "raw" ELSE "none")
        request == [sent |-> TRUE, q |-> search_q, params |-> search_params]
    IN  IF gi.raised \/ query_vector = "raise"
        THEN [st |-> gi.st, status |-> "raise", results |-> <<>>, request |-> NoRequest]
        ELSE IF bk.outcome # "ok"
        THEN [st |-> gi.st, status |-> "raise", results |-> <<>>, request |-> request]
        ELSE [st |-> gi.st, status |-> "ok",
              results |-> [i \in 1..Len(bk.hits) |-> Project(bk.hits[i])],
              request |-> request]

\* the debug dict holding the search parameters as they were sent
DebugSentParams(query, search_q, params, count, keys, note, err) ==
    [query_raw |-> query,
     query_sent |-> search_q,
     search_params |-> [params EXCEPT !.vector = IF @ = "dims" THEN "raw" ELSE @],
     hit_count |-> count,
     raw_first_hit_keys |-> keys,
     vector |-> note,
     error |-> err]

\* the debug dict of search_hpo_results; error is a list of 0 or 1 strings,
\* vector the note left when no query vector was computed
Debug(query, search_q, params, count, keys, note, err) ==
    [query_raw |-> query,
     query_sent |-> search_q,
     search_params |-> params,
     hit_count |-> count,
     raw_first_hit_keys |-> keys,
     vector |-> note,
     error |-> err]

\* search_hpo_results(query, limit): (results, debug), and the request the
\* index received, if any
search_hpo_results(st, env, query, limit, bk) ==
    LET q == prepare_search_query(query)
        search_q == IF q # <<>> THEN q ELSE Strip(query)
        gi == get_index(st, env)
        query_vector == _embed_query(gi.st, search_q, bk)
        search_params == Params(limit, IF query_vector = "vector" THEN "dims" ELSE "none")
        actual_params == Params(limit, IF query_vector = "vector" THEN "raw" ELSE "none")
        note == IF query_vector = "vector" THEN "" ELSE "no embedding model"
        request == [sent |-> TRUE, q |-> search_q, params |-> actual_params]
    IN  IF search_q = <<>>
        THEN [st |-> st, results |-> <<>>, request |-> NoRequest,
              debug |-> Debug(query, search_q, NoParams, 0, {}, "",
                              <<"empty query after normalization">>)]
        ELSE IF gi.raised
        THEN [st |-> gi.st, results |-> <<>>, request |-> NoRequest,
              debug |-> Debug(query, search_q, NoParams, 0, {}, "", <<"init_app">>)]
        ELSE IF query_vector = "raise"
        THEN [st |-> gi.st, results |-> <<>>, request |-> NoRequest,
              debug |-> Debug(query, search_q, NoParams, 0, {}, "", <<"encode">>)]
        ELSE IF bk.outcome \in {"unreachable", "malformed"}
        THEN [st |-> gi.st, results |-> <<>>, request |-> request,
              debug |-> Debug(query, search_q, search_params, 0, {}, note,
                              <<bk.outcome>>)]
        ELSE IF bk.outcome = "badhits"
        THEN [st |-> gi.st, results |-> <<>>, request |-> request,
              debug |-> Debug(query, search_q, search_params, Len(bk.hits), {}, note,
                              <<bk.outcome>>)]
        ELSE [st |-> gi.st,
              results |-> [i \in 1..Len(bk.hits) |-> Project(bk.hits[i])],
              request |-> request,
              debug |-> Debug(query, search_q, search_params, Len(bk.hits),
                              IF bk.hits = <<>> THEN {} ELSE DOMAIN bk.hits[1],
                              note, <<>>)]

\* the documents of the backend index
IndexDocs == {Doc1, Doc2}

\* index.get_document(doc_id): the document with that primary key, as a list
\* of 0 or 1; the backend raises when it has none
GetDocument(doc_id) ==
    IF \E d \in IndexDocs : d.id = doc_id
    THEN <<CHOOSE d \in IndexDocs : d.id = doc_id>>
    ELSE <<>>

\* the lookup without its try/except: a failure reaches the caller
hpo_get_term_by_id_raising(st, env, term_id, bk) ==
    LET doc_id == IF Contains(term_id, <<":">>)
                  THEN ReplaceFirst(Strip(term_id), ":", <<"_">>)
                  ELSE Strip(term_id)
        gi == get_index(st, env)
    IN  IF Strip(term_id) = <<>>
        THEN [st |-> st, status |-> "ok", found |-> <<>>]
        ELSE IF gi.raised \/ bk.outcome # "ok" \/ GetDocument(doc_id) = <<>>
        THEN [st |-> gi.st, status |-> "raise", found |-> <<>>]
        ELSE [st |-> gi.st, status |-> "ok",
              found |-> <<Project(GetDocument(doc_id)[1])>>]

\* app.hpo.get_term_by_id(term_id); None is the empty list
hpo_get_term_by_id(st, env, term_id, bk) ==
    LET doc_id == IF Contains(term_id, <<":">>)
                  THEN ReplaceFirst(Strip(term_id), ":", <<"_">>)
                  ELSE Strip(term_id)
        gi == get_index(st, env)
    IN  IF Strip(term_id) = <<>>
        THEN [st |-> st, status |-> "ok", found |-> <<>>]
        ELSE IF gi.raised \/ bk.outcome # "ok" \/ GetDocument(doc_id) = <<>>
        THEN [st |-> gi.st, status |-> "ok", found |-> <<>>]
        ELSE [st |-> gi.st, status |-> "ok",
              found |-> <<Project(GetDocument(doc_id)[1])>>]

(***************************************************************************)
(* app/hpo_tools.py: the tools of the agent.  A tool returns a string: the *)
(* JSON of its result ("json"), "Error ..." ("error") or "No HPO term      *)
(* found for ID: ..." ("not_found").                                       *)
(***************************************************************************)
\* HPOTools.search_hpo(query, limit)
tool_search_hpo(st, env, query, limit, bk) ==
    LET r == search_hpo(st, env, query, limit, bk)
    IN  [st |-> r.st, status |-> "ok",
         kind |-> IF r.status = "ok" THEN "json" ELSE "error",
         results |-> r.results]

\* HPOTools.get_hpo_term(term_id)
tool_get_hpo_term(st, env, term_id, bk) ==
    LET r == hpo_get_term_by_id(st, env, term_id, bk)
    IN  [st |-> r.st, status |-> "ok",
         kind |-> IF r.status # "ok" THEN "error"
                  ELSE IF r.found # <<>> THEN "json"
                  ELSE "not_found",
         found |-> r.found]

(***************************************************************************)
(* app/agent.py: the batch term resolver.                                  *)
(***************************************************************************)
\* agent.py:28
HPO_RESULTS_PER_TERM == 5

\* the row of a term without candidate labelled with the term
MatchRowLabelled(term, results) ==
    IF results # <<>>
    THEN [medical_term |-> term, hpo_id |-> results[1].hpo_id,
          hpo_name |-> results[1].name, hpo_definition |-> results[1].definition]
    ELSE [medical_term |-> term, hpo_id |-> <<>>, hpo_name |-> term,
          hpo_definition |-> <<>>]

\* the row taken from the last result instead of the first
MatchRowLast(term, results) ==
    IF results # <<>>
    THEN [medical_term |-> term, hpo_id |-> results[Len(results)].hpo_id,
          hpo_name |-> results[Len(results)].name,
          hpo_definition |-> results[Len(results)].definition]
    ELSE [medical_term |-> term, hpo_id |-> <<>>, hpo_name |-> <<>>,
          hpo_definition |-> <<>>]

\* the HPOMatch row and the TermDebug of one term, from its search
MatchRow(term, results) ==
    IF results # <<>>
    THEN [medical_term |-> term, hpo_id |-> results[1].hpo_id,
          hpo_name |-> results[1].name, hpo_definition |-> results[1].definition]
    ELSE [medical_term |-> term, hpo_id |-> <<>>, hpo_name |-> <<>>,
          hpo_definition |-> <<>>]

\* the TermDebug built without the error of the search
TermDebugNoError(term, results, debug) ==
    [term |-> term,
     query_sent |-> debug.query_sent,
     hit_count |-> debug.hit_count,
     search_params |-> debug.search_params,
     raw_first_hit_keys |-> debug.raw_first_hit_keys,
     top_result |-> IF results # <<>> THEN <<results[1]>> ELSE <<>>,
     error |-> <<>>]

TermDebug(term, results, debug) ==
    [term |-> term,
     query_sent |-> debug.query_sent,
     hit_count |-> debug.hit_count,
     search_params |-> debug.search_params,
     raw_first_hit_keys |-> debug.raw_first_hit_keys,
     top_result |-> IF results # <<>> THEN <<results[1]>> ELSE <<>>,
     error |-> debug.error]

\* the loop skipping a term equal to an earlier one, as _parse_terms does
RECURSIVE BuildFromDedup(_, _, _, _, _, _, _)
BuildFromDedup(st, env, terms, bks, i, matches, term_debugs) ==
    IF i > Len(terms)
    THEN [st |-> st, matches |-> matches, term_debugs |-> term_debugs]
    ELSE IF \E k \in 1..(i - 1) : terms[k] = terms[i]
    THEN BuildFromDedup(st, env, terms, bks, i + 1, matches, term_debugs)
    ELSE LET r == search_hpo_results(st, env, terms[i], HPO_RESULTS_PER_TERM, bks[i])
         IN  BuildFromDedup(r.st, env, terms, bks, i + 1,
                       Append(matches, MatchRow(terms[i], r.results)),
                       Append(term_debugs, TermDebug(terms[i], r.results, r.debug)))

\* the loop of _build_hpo_matches from term i on; bks[i] is what the backend
\* does when term i is searched
RECURSIVE BuildFrom(_, _, _, _, _, _, _)
BuildFrom(st, env, terms, bks, i, matches, term_debugs) ==
    IF i > Len(terms)
    THEN [st |-> st, matches |-> matches, term_debugs |-> term_debugs]
    ELSE LET r == search_hpo_results(st, env, terms[i], HPO_RESULTS_PER_TERM, bks[i])
         IN  BuildFrom(r.st, env, terms, bks, i + 1,
                       Append(matches, MatchRow(terms[i], r.results)),
                       Append(term_debugs, TermDebug(terms[i], r.results, r.debug)))

\* _build_hpo_matches(terms)
_build_hpo_matches(st, env, terms, bks) ==
    BuildFrom(st, env, terms, bks, 1, <<>>, <<>>)

(***************************************************************************)
(* The search funnel, app.search.search_funnel(query, limit), which         *)
(* app/web.py and the tests import.  It is modelled from its design: the   *)
(* primary client first, called with the caller's query, and on any        *)
(* failure of it the fallback search on the normalized query.              *)
(***************************************************************************)
\* the funnel trying the fallback first and the primary client only when the
\* fallback found nothing
search_funnel_fallback_first(file, terms, st, env, query, limit, bk) ==
    LET nq == prepare_search_query(query)
        f == search(file, terms, nq, limit)
        p == search_hpo(st, env, query, limit, bk)
        first == [engine |-> "fallback", query |-> nq]
        second == [engine |-> "primary", query |-> query]
    IN  IF f.status = "ok" /\ f.results # <<>>
        THEN [st |-> st, terms |-> f.terms, status |-> "ok", results |-> f.results,
              calls |-> <<first>>, primary |-> "none", reads |-> f.reads]
        ELSE [st |-> p.st, terms |-> f.terms, status |-> p.status,
              results |-> p.results, calls |-> <<first, second>>,
              primary |-> p.status, reads |-> f.reads]

search_funnel(file, terms, st, env, query, limit, bk) ==
    LET p == search_hpo(st, env, query, limit, bk)
        nq == prepare_search_query(query)
        f == search(file, terms, nq, limit)
        first == [engine |-> "primary", query |-> query]
        second == [engine |-> "fallback", query |-> nq]
    IN  IF p.status = "ok"
        THEN [st |-> p.st, terms |-> terms, status |-> "ok", results |-> p.results,
              calls |-> <<first>>, primary |-> p.status, reads |-> 0]
        ELSE [st |-> p.st, terms |-> f.terms, status |-> f.status,
              results |-> f.results, calls |-> <<first, second>>,
              primary |-> p.status, reads |-> f.reads]

(***************************************************************************)
(* The HTTP search handlers.  A handler answers 200 with the results, or   *)
(* 500 when anything under it raised (raise HTTPException(500)).           *)
(***************************************************************************)
\* search.py:147, web.py:62, main.py:59: limit=15
ApiLimit == 15

\* app/search.py: POST /api/search
api_search(file, terms, query) ==
    LET query_sent == _normalize_query(query)
        r == search(file, terms,
                    IF query_sent # <<>> THEN query_sent ELSE Strip(query), ApiLimit)
    IN  [code |-> IF r.status = "ok" THEN 200 ELSE 500,
         results |-> r.results, terms |-> r.terms, reads |-> r.reads]

\* app/web.py: POST /api/search/fallback, over the search funnel
web_api_search_fallback(file, terms, st, env, query, bk) ==
    LET r == search_funnel(file, terms, st, env, query, ApiLimit, bk)
    IN  [code |-> IF r.status = "ok" THEN 200 ELSE 500,
         results |-> r.results, terms |-> r.terms, st |-> r.st, reads |-> r.reads]

\* app/main.py: POST /api/search/fallback, over search_hpo alone
main_api_search_fallback(st, env, query, bk) ==
    LET r == search_hpo(st, env, query, ApiLimit, bk)
    IN  [code |-> IF r.status = "ok" THEN 200 ELSE 500,
         results |-> r.results, st |-> r.st]

(***************************************************************************)
(* Inputs.                                                                 *)
(***************************************************************************)
\* every string of at most n characters over whitespace, two letters and a
\* punctuation mark
Strings(n) == UNION {[1..k -> {" ", "\t", "a", "B", ":"}] : k \in 0..n}

\* queries given to the searches
Queries ==
    { <<>>, <<" ", "\t">>, <<"a", "s">>, <<" ", "A", "S", " ">>,
      <<"a", " ", " ", "s">>, <<"h", "p", ":", "2">>, <<"z">>, <<"q">> }

\* ids given to the lookup
LookupIds ==
    { <<>>, <<"H", "P", ":", "1">>, <<"H", "P", "_", "1">>, <<" ", "h", "p", ":", "1">>,
      <<"H", "P", ":", "2">>, <<"H", "P", "_", "2">>,
      <<"H", "P", ":", "3", "_", "4">>, <<"H", "P", "_", "3", "_", "4">>,
      <<"H", "P", ":", "9">> }

\* node identifiers: a namespace and a number, as the final segment of a URI,
\* in the bare underscore form and in the colon form; and ids of no such shape
Namespaces == {<<"H", "P">>, <<"h", "p">>, <<"H", "p">>, <<"x">>, <<"S", "d">>}

Numbers == {<<"1">>, <<"2">>, <<"0", "1">>, <<"1", "2">>, <<"0", "0", "3">>, <<"9">>}

OtherIri == <<"s", ":", "/", "/", "h", "/", "o", "b", "o", "/">>

UriForm(host, ns, n) == host \o ns \o <<"_">> \o n

BareForm(ns, n) == ns \o <<"_">> \o n

ColonForm(ns, n) == ns \o <<":">> \o n

NodeIds ==
    { UriForm(h, ns, n) : h \in {Iri, OtherIri}, ns \in Namespaces, n \in Numbers }
    \cup { BareForm(ns, n) : ns \in Namespaces, n \in Numbers }
    \cup { ColonForm(ns, n) : ns \in Namespaces, n \in Numbers }
    \cup { <<>>, <<"H", "P", "1">>, Iri \o <<"H", "P", "1">> }

\* terms given to the batch resolver
TermSet == { <<"a", "s">>, <<" ", "A", "s", "d">>, <<" ">> }

(***************************************************************************)
(* The state machine.                                                      *)
(***************************************************************************)
hpoState == [client |-> _client, index |-> _index, model |-> _embedding_model]

NoCall ==
    [op |-> "none", query |-> <<>>, limit |-> 0, term_id |-> <<>>, terms |-> <<>>,
     bks |-> <<>>, populated |-> FALSE, status |-> "none", results |-> <<>>,
     found |-> <<>>, text |-> <<>>, calls |-> <<>>, primary |-> "none",
     reads |-> 0, matches |-> <<>>, debugs |-> <<>>, request |-> NoRequest,
     debug |-> <<>>, embedded |-> "none", client |-> "None", had_index |-> FALSE,
     code |-> 0, shared |-> FALSE, kind |-> "none"]

Idle == last.op = "none"

Threads == 1..MaxThreads

\* a thread outside app/hpo.py: where it is (pc), the entry point it called
\* (op), the client and the index it holds in a local or on its stack, and
\* the index it sent a search through, with whether the client of that index
\* had its session configured at that moment
NoThread ==
    [pc |-> "idle", op |-> "none", client |-> "None", index |-> "None",
     searched |-> "None", configured |-> FALSE]

\* at start data/hp.json is absent, corrupt or a small export; WriteFile
\* brings the others
Init ==
    /\ hpFile \in {f \in FileStates : f.nodes \in {<<>>, NodesA}}
    /\ _terms = <<>>
    /\ _client = "None"
    /\ _index = "None"
    /\ _embedding_model = "None"
    /\ embEnv \in EmbEnvs
    /\ MEILISEARCH_URL \in MeiliUrls
    /\ configured = {}
    /\ threads = [t \in Threads |-> NoThread]
    /\ last = NoCall

\* the caller has taken the outcome of the last call
Return ==
    /\ ~Idle
    /\ last' = NoCall
    /\ UNCHANGED <<hpFile, _terms, _client, _index, _embedding_model, embEnv,
                   MEILISEARCH_URL, configured, threads>>

\* the environment replaces, removes or corrupts data/hp.json
WriteFile ==
    /\ Idle
    /\ \E f \in FileStates : f # hpFile /\ hpFile' = f
    /\ last' = [NoCall EXCEPT !.op = "write_file", !.populated = _terms # <<>>]
    /\ UNCHANGED <<_terms, _client, _index, _embedding_model, embEnv,
                   MEILISEARCH_URL, configured, threads>>

\* app.search.init_app()
SearchInitApp ==
    /\ Idle
    /\ \E r \in {init_app(hpFile, _terms)} :
        /\ _terms' = r.terms
        /\ last' = [NoCall EXCEPT !.op = "init_app", !.populated = _terms # <<>>,
                                  !.status = IF r.raised THEN "raise" ELSE "ok",
                                  !.reads = r.reads]
    /\ UNCHANGED <<hpFile, _client, _index, _embedding_model, embEnv,
                   MEILISEARCH_URL, configured, threads>>

\* app.search.search(query, limit)
Search ==
    /\ Idle
    /\ \E query \in Queries, limit \in 0..MaxLimit :
        \E r \in {search(hpFile, _terms, query, limit)} :
            /\ _terms' = r.terms
            /\ last' = [NoCall EXCEPT !.op = "search", !.query = query,
                                      !.limit = limit, !.populated = _terms # <<>>,
                                      !.status = r.status, !.results = r.results,
                                      !.reads = r.reads, !.shared = r.shared]
    /\ UNCHANGED <<hpFile, _client, _index, _embedding_model, embEnv,
                   MEILISEARCH_URL, configured, threads>>

\* app.search.get_terms()
GetTerms ==
    /\ Idle
    /\ \E r \in {get_terms(_terms)} :
        last' = [NoCall EXCEPT !.op = "get_terms", !.populated = _terms # <<>>,
                               !.status = "ok", !.results = r.results,
                               !.shared = r.shared]
    /\ UNCHANGED <<hpFile, _terms, _client, _index, _embedding_model, embEnv,
                   MEILISEARCH_URL, configured, threads>>

\* the caller of search or get_terms assigns to a key of a dict it was
\* handed: results[j]["name"] = "x".  A dict that search built is the
\* caller's own; a dict of _terms is changed in the snapshot too, and
\* results[j] is _terms[j] then
CallerWrites ==
    /\ last.op \in {"search", "get_terms"}
    /\ \E j \in 1..Len(last.results) :
        /\ last.results[j].name # <<"x">>
        /\ last' = [last EXCEPT !.results[j].name = <<"x">>]
        /\ _terms' = IF last.shared THEN [_terms EXCEPT ![j].name = <<"x">>]
                     ELSE _terms
    /\ UNCHANGED <<hpFile, _client, _index, _embedding_model, embEnv,
                   MEILISEARCH_URL, configured, threads>>

\* app.search.get_term_by_id(term_id)
GetTermById ==
    /\ Idle
    /\ \E term_id \in LookupIds :
        \E r \in {get_term_by_id(hpFile, _terms, term_id)} :
            /\ _terms' = r.terms
            /\ last' = [NoCall EXCEPT !.op = "get_term_by_id", !.term_id = term_id,
                                      !.populated = _terms # <<>>,
                                      !.status = r.status, !.found = r.found,
                                      !.reads = r.reads]
    /\ UNCHANGED <<hpFile, _client, _index, _embedding_model, embEnv,
                   MEILISEARCH_URL, configured, threads>>

\* app.hpo.init_app()
HpoInitApp ==
    /\ Idle
    /\ \E r \in {hpo_init_app(hpoState, embEnv)} :
        /\ _client' = r.st.client
        /\ _index' = r.st.index
        /\ _embedding_model' = r.st.model
        /\ last' = [NoCall EXCEPT !.op = "hpo_init_app",
                                  !.status = IF r.raised THEN "raise" ELSE "ok"]
    /\ UNCHANGED <<hpFile, _terms, embEnv,
                   MEILISEARCH_URL, configured, threads>>

\* search_funnel(query, limit) with limit >= 1
SearchFunnel ==
    /\ Idle
    /\ \E query \in Queries, limit \in 1..MaxLimit, bk \in BackendScenarios :
        /\ Len(bk.hits) <= limit
        /\ \E r \in {search_funnel(hpFile, _terms, hpoState, embEnv, query, limit, bk)} :
            /\ _terms' = r.terms
            /\ _client' = r.st.client
            /\ _index' = r.st.index
            /\ _embedding_model' = r.st.model
            /\ last' = [NoCall EXCEPT !.op = "search_funnel", !.query = query,
                                      !.limit = limit, !.bks = <<bk>>,
                                      !.populated = _terms # <<>>,
                                      !.status = r.status, !.results = r.results,
                                      !.calls = r.calls, !.primary = r.primary,
                                      !.reads = r.reads]
    /\ UNCHANGED <<hpFile, embEnv, MEILISEARCH_URL, configured, threads>>

\* _build_hpo_matches(terms)
BuildHpoMatches ==
    /\ Idle
    /\ \E n \in 0..MaxTerms :
        \E terms \in [1..n -> TermSet], bks \in [1..n -> BackendScenarios] :
            \E r \in {_build_hpo_matches(hpoState, embEnv, terms, bks)} :
                /\ _client' = r.st.client
                /\ _index' = r.st.index
                /\ _embedding_model' = r.st.model
                /\ last' = [NoCall EXCEPT !.op = "_build_hpo_matches",
                                          !.terms = terms, !.bks = bks,
                                          !.had_index = _index # "None",
                                          !.status = "ok", !.matches = r.matches,
                                          !.debugs = r.term_debugs]
    /\ UNCHANGED <<hpFile, _terms, embEnv,
                   MEILISEARCH_URL, configured, threads>>

\* app.hpo.get_client()
GetClient ==
    /\ Idle
    /\ \E r \in {get_client(hpoState, embEnv)} :
        /\ _client' = r.st.client
        /\ _index' = r.st.index
        /\ _embedding_model' = r.st.model
        /\ last' = [NoCall EXCEPT !.op = "get_client",
                                  !.had_index = _index # "None",
                                  !.status = IF r.raised THEN "raise" ELSE "ok",
                                  !.client = IF r.raised THEN "None" ELSE r.st.client]
    /\ UNCHANGED <<hpFile, _terms, embEnv,
                   MEILISEARCH_URL, configured, threads>>

\* app.hpo._embed_query(text)
EmbedQuery ==
    /\ Idle
    /\ \E text \in Queries, bk \in {b \in BackendScenarios : b.hits = <<Doc1>>} :
        \E v \in {_embed_query(hpoState, text, bk)} :
            last' = [NoCall EXCEPT !.op = "_embed_query", !.query = text,
                                   !.bks = <<bk>>,
                                   !.status = IF v = "raise" THEN "raise" ELSE "ok",
                                   !.embedded = v]
    /\ UNCHANGED <<hpFile, _terms, _client, _index, _embedding_model, embEnv,
                   MEILISEARCH_URL, configured, threads>>

\* app.hpo.search_hpo(query, limit) with limit >= 1
SearchHpo ==
    /\ Idle
    /\ \E query \in Queries, limit \in 1..MaxLimit, bk \in BackendScenarios :
        /\ Len(bk.hits) <= limit
        /\ \E r \in {search_hpo(hpoState, embEnv, query, limit, bk)} :
            /\ _client' = r.st.client
            /\ _index' = r.st.index
            /\ _embedding_model' = r.st.model
            /\ last' = [NoCall EXCEPT !.op = "search_hpo", !.query = query,
                                      !.limit = limit, !.bks = <<bk>>,
                                      !.had_index = _index # "None",
                                      !.status = r.status, !.results = r.results,
                                      !.request = r.request]
    /\ UNCHANGED <<hpFile, _terms, embEnv,
                   MEILISEARCH_URL, configured, threads>>

\* app.hpo.search_hpo_results(query, limit) with limit >= 1
SearchHpoResults ==
    /\ Idle
    /\ \E query \in Queries, limit \in 1..MaxLimit, bk \in BackendScenarios :
        /\ Len(bk.hits) <= limit
        /\ \E r \in {search_hpo_results(hpoState, embEnv, query, limit, bk)} :
            /\ _client' = r.st.client
            /\ _index' = r.st.index
            /\ _embedding_model' = r.st.model
            /\ last' = [NoCall EXCEPT !.op = "search_hpo_results", !.query = query,
                                      !.limit = limit, !.bks = <<bk>>,
                                      !.had_index = _index # "None",
                                      !.status = "ok", !.results = r.results,
                                      !.request = r.request, !.debug = <<r.debug>>]
    /\ UNCHANGED <<hpFile, _terms, embEnv,
                   MEILISEARCH_URL, configured, threads>>

\* prepare_search_query(query)
PrepareSearchQuery ==
    /\ Idle
    /\ \E query \in Strings(MaxLen) :
        last' = [NoCall EXCEPT !.op = "prepare_search_query", !.query = query,
                               !.status = "ok",
                               !.text = prepare_search_query(query)]
    /\ UNCHANGED <<hpFile, _terms, _client, _index, _embedding_model, embEnv,
                   MEILISEARCH_URL, configured, threads>>

\* _normalize_query(query)
NormalizeQuery ==
    /\ Idle
    /\ \E query \in Strings(MaxLen) :
        last' = [NoCall EXCEPT !.op = "_normalize_query", !.query = query,
                               !.status = "ok",
                               !.text = _normalize_query(query)]
    /\ UNCHANGED <<hpFile, _terms, _client, _index, _embedding_model, embEnv,
                   MEILISEARCH_URL, configured, threads>>

\* _curie_from_id(node_id)
CurieFromId ==
    /\ Idle
    /\ \E node_id \in NodeIds :
        last' = [NoCall EXCEPT !.op = "_curie_from_id", !.term_id = node_id,
                               !.status = "ok",
                               !.text = _curie_from_id(node_id)]
    /\ UNCHANGED <<hpFile, _terms, _client, _index, _embedding_model, embEnv,
                   MEILISEARCH_URL, configured, threads>>

\* HPOTools.search_hpo(query, limit) with limit >= 1
ToolSearchHpo ==
    /\ Idle
    /\ \E query \in Queries, limit \in 1..MaxLimit, bk \in BackendScenarios :
        /\ Len(bk.hits) <= limit
        /\ \E r \in {tool_search_hpo(hpoState, embEnv, query, limit, bk)} :
            /\ _client' = r.st.client
            /\ _index' = r.st.index
            /\ _embedding_model' = r.st.model
            /\ last' = [NoCall EXCEPT !.op = "tool_search_hpo", !.query = query,
                                      !.limit = limit, !.bks = <<bk>>,
                                      !.had_index = _index # "None",
                                      !.status = r.status, !.kind = r.kind,
                                      !.results = r.results]
    /\ UNCHANGED <<hpFile, _terms, embEnv, MEILISEARCH_URL, configured, threads>>

\* HPOTools.get_hpo_term(term_id)
ToolGetHpoTerm ==
    /\ Idle
    /\ \E term_id \in LookupIds, bk \in BackendScenarios :
        /\ bk.hits = <<>>
        /\ \E r \in {tool_get_hpo_term(hpoState, embEnv, term_id, bk)} :
            /\ _client' = r.st.client
            /\ _index' = r.st.index
            /\ _embedding_model' = r.st.model
            /\ last' = [NoCall EXCEPT !.op = "tool_get_hpo_term",
                                      !.term_id = term_id, !.bks = <<bk>>,
                                      !.had_index = _index # "None",
                                      !.status = r.status, !.kind = r.kind,
                                      !.found = r.found]
    /\ UNCHANGED <<hpFile, _terms, embEnv, MEILISEARCH_URL, configured, threads>>

\* POST /api/search (app/search.py)
ApiSearch ==
    /\ Idle
    /\ \E query \in Queries :
        \E r \in {api_search(hpFile, _terms, query)} :
            /\ _terms' = r.terms
            /\ last' = [NoCall EXCEPT !.op = "api_search", !.query = query,
                                      !.limit = ApiLimit,
                                      !.populated = _terms # <<>>,
                                      !.status = "ok", !.code = r.code,
                                      !.results = r.results, !.reads = r.reads]
    /\ UNCHANGED <<hpFile, _client, _index, _embedding_model, embEnv,
                   MEILISEARCH_URL, configured, threads>>

\* POST /api/search/fallback (app/web.py)
WebApiSearchFallback ==
    /\ Idle
    /\ \E query \in Queries, bk \in BackendScenarios :
        \E r \in {web_api_search_fallback(hpFile, _terms, hpoState, embEnv, query, bk)} :
            /\ _terms' = r.terms
            /\ _client' = r.st.client
            /\ _index' = r.st.index
            /\ _embedding_model' = r.st.model
            /\ last' = [NoCall EXCEPT !.op = "web_api_search_fallback",
                                      !.query = query, !.limit = ApiLimit,
                                      !.bks = <<bk>>, !.populated = _terms # <<>>,
                                      !.had_index = _index # "None",
                                      !.status = "ok", !.code = r.code,
                                      !.results = r.results, !.reads = r.reads]
    /\ UNCHANGED <<hpFile, embEnv, MEILISEARCH_URL, configured, threads>>

\* POST /api/search/fallback (app/main.py)
MainApiSearchFallback ==
    /\ Idle
    /\ \E query \in Queries, bk \in BackendScenarios :
        \E r \in {main_api_search_fallback(hpoState, embEnv, query, bk)} :
            /\ _client' = r.st.client
            /\ _index' = r.st.index
            /\ _embedding_model' = r.st.model
            /\ last' = [NoCall EXCEPT !.op = "main_api_search_fallback",
                                      !.query = query, !.limit = ApiLimit,
                                      !.bks = <<bk>>, !.populated = _terms # <<>>,
                                      !.had_index = _index # "None",
                                      !.status = "ok", !.code = r.code,
                                      !.results = r.results]
    /\ UNCHANGED <<hpFile, _terms, embEnv, MEILISEARCH_URL, configured, threads>>

(***************************************************************************)
(* app/hpo.py run by several threads.  init_app, get_client and get_index  *)
(* take no lock, so a thread can be preempted between any two reads and    *)
(* writes of a module global; each action below is one such read or write. *)
(* The client built by thread t is ClientOf(t), and client.index(...) of   *)
(* it is IndexOf(ClientOf(t)).                                             *)
(***************************************************************************)
ClientOf(t) == "client" \o ToString(t)

IndexOf(c) == "index" \o ToString(CHOOSE t \in Threads : ClientOf(t) = c)

\* the client an index handle sends its requests through
OwnerOf(i) == ClientOf(CHOOSE t \in Threads : IndexOf(ClientOf(t)) = i)

Goto(t, pc) == threads' = [threads EXCEPT ![t].pc = pc]

\* thread t calls init_app(), get_client(), or search_hpo(), whose first
\* statement that reads a global is get_index()
ThreadCall(t) ==
    /\ threads[t].pc = "idle"
    /\ \E op \in {"init_app", "get_client", "search_hpo"} :
        threads' = [threads EXCEPT ![t].op = op,
                       ![t].pc = CASE op = "init_app" -> "ia_check"
                                   [] op = "get_client" -> "gc_check"
                                   [] op = "search_hpo" -> "gi_check"]
    /\ UNCHANGED <<hpFile, _terms, _client, _index, _embedding_model, embEnv,
                   MEILISEARCH_URL, configured, last>>

\* hpo.py:66: if _client is None
InitAppCheck(t) ==
    /\ threads[t].pc = "ia_check"
    /\ Goto(t, IF _client = "None" THEN "ia_new" ELSE "ia_model")
    /\ UNCHANGED <<hpFile, _terms, _client, _index, _embedding_model, embEnv,
                   MEILISEARCH_URL, configured, last>>

\* hpo.py:70: _client = MeilisearchClient(url, api_key=api_key)
InitAppNewClient(t) ==
    /\ threads[t].pc = "ia_new"
    /\ _client' = ClientOf(t)
    /\ Goto(t, "ia_session")
    /\ UNCHANGED <<hpFile, _terms, _index, _embedding_model, embEnv,
                   MEILISEARCH_URL, configured, last>>

\* hpo.py:71: _configure_session(_client), on the client the global holds now
InitAppConfigureSession(t) ==
    /\ threads[t].pc = "ia_session"
    /\ configured' = configured \cup {_client}
    /\ Goto(t, "ia_index")
    /\ UNCHANGED <<hpFile, _terms, _client, _index, _embedding_model, embEnv,
                   MEILISEARCH_URL, last>>

\* hpo.py:73, right-hand side: _client.index(HPO_INDEX_UID)
InitAppIndexOfClient(t) ==
    /\ threads[t].pc = "ia_index"
    /\ threads' = [threads EXCEPT ![t].index = IndexOf(_client),
                                  ![t].pc = "ia_store"]
    /\ UNCHANGED <<hpFile, _terms, _client, _index, _embedding_model, embEnv,
                   MEILISEARCH_URL, configured, last>>

\* hpo.py:73, the store: _index = ...
InitAppStoreIndex(t) ==
    /\ threads[t].pc = "ia_store"
    /\ _index' = threads[t].index
    /\ Goto(t, "ia_model")
    /\ UNCHANGED <<hpFile, _terms, _client, _embedding_model, embEnv,
                   MEILISEARCH_URL, configured, last>>

\* hpo.py:80-86: the embedding model, then the return of init_app to its
\* caller: the thread itself or get_client
InitAppModel(t) ==
    /\ threads[t].pc = "ia_model"
    /\ _embedding_model' = IF _embedding_model = "None" /\ embEnv = "ok"
                           THEN "model" ELSE _embedding_model
    /\ Goto(t, IF _embedding_model = "None" /\ embEnv = "loadfails" THEN "raised"
               ELSE IF threads[t].op = "init_app" THEN "done"
               ELSE "gc_return")
    /\ UNCHANGED <<hpFile, _terms, _client, _index, embEnv, MEILISEARCH_URL,
                   configured, last>>

\* hpo.py:118: if _client is None: init_app()
GetClientCheck(t) ==
    /\ threads[t].pc = "gc_check"
    /\ Goto(t, IF _client = "None" THEN "ia_check" ELSE "gc_return")
    /\ UNCHANGED <<hpFile, _terms, _client, _index, _embedding_model, embEnv,
                   MEILISEARCH_URL, configured, last>>

\* hpo.py:120-122: return _client, to the thread itself or to get_index
GetClientReturn(t) ==
    /\ threads[t].pc = "gc_return"
    /\ threads' = [threads EXCEPT ![t].client = _client,
                       ![t].pc = IF _client = "None" THEN "raised"
                                 ELSE IF threads[t].op = "get_client" THEN "done"
                                 ELSE "gi_index"]
    /\ UNCHANGED <<hpFile, _terms, _client, _index, _embedding_model, embEnv,
                   MEILISEARCH_URL, configured, last>>

\* hpo.py:128: if _index is None
GetIndexCheck(t) ==
    /\ threads[t].pc = "gi_check"
    /\ Goto(t, IF _index = "None" THEN "gc_check" ELSE "gi_return")
    /\ UNCHANGED <<hpFile, _terms, _client, _index, _embedding_model, embEnv,
                   MEILISEARCH_URL, configured, last>>

\* hpo.py:129, right-hand side: get_client().index(HPO_INDEX_UID)
GetIndexOfClient(t) ==
    /\ threads[t].pc = "gi_index"
    /\ threads' = [threads EXCEPT ![t].index = IndexOf(threads[t].client),
                                  ![t].pc = "gi_store"]
    /\ UNCHANGED <<hpFile, _terms, _client, _index, _embedding_model, embEnv,
                   MEILISEARCH_URL, configured, last>>

\* hpo.py:129, the store: _index = ...
GetIndexStore(t) ==
    /\ threads[t].pc = "gi_store"
    /\ _index' = threads[t].index
    /\ Goto(t, "gi_return")
    /\ UNCHANGED <<hpFile, _terms, _client, _embedding_model, embEnv,
                   MEILISEARCH_URL, configured, last>>

\* hpo.py:130: return _index, read from the global again
GetIndexReturn(t) ==
    /\ threads[t].pc = "gi_return"
    /\ threads' = [threads EXCEPT ![t].index = _index, ![t].pc = "search"]
    /\ UNCHANGED <<hpFile, _terms, _client, _index, _embedding_model, embEnv,
                   MEILISEARCH_URL, configured, last>>

\* hpo.py:157: index.search(search_q, search_params) through the handle
\* get_index returned
ThreadSearch(t) ==
    /\ threads[t].pc = "search"
    /\ threads' = [threads EXCEPT
                       ![t].searched = threads[t].index,
                       ![t].configured = OwnerOf(threads[t].index) \in configured,
                       ![t].pc = "done"]
    /\ UNCHANGED <<hpFile, _terms, _client, _index, _embedding_model, embEnv,
                   MEILISEARCH_URL, configured, last>>

\* thread t has returned (or the exception has reached its caller) and makes
\* its next call
ThreadReturn(t) ==
    /\ threads[t].pc \in {"done", "raised"}
    /\ threads' = [threads EXCEPT ![t] = NoThread]
    /\ UNCHANGED <<hpFile, _terms, _client, _index, _embedding_model, embEnv,
                   MEILISEARCH_URL, configured, last>>

Next ==
    \/ Return
    \/ WriteFile
    \/ SearchInitApp
    \/ Search
    \/ GetTermById
    \/ GetTerms
    \/ CallerWrites
    \/ HpoInitApp
    \/ GetClient
    \/ EmbedQuery
    \/ SearchHpo
    \/ SearchHpoResults
    \/ SearchFunnel
    \/ CurieFromId
    \/ ToolSearchHpo
    \/ ToolGetHpoTerm
    \/ ApiSearch
    \/ WebApiSearchFallback
    \/ MainApiSearchFallback
    \/ BuildHpoMatches
    \/ PrepareSearchQuery
    \/ NormalizeQuery

Spec == Init /\ [][Next]_vars

\* the fallback engine alone
InitFallback == Init /\ embEnv = "ok" /\ MEILISEARCH_URL = ""

NextFallback == Return \/ WriteFile \/ SearchInitApp \/ Search \/ GetTermById

SpecFallback == InitFallback /\ [][NextFallback]_vars

\* the fallback engine and what its callers do with the records they get
NextCallers ==
    \/ Return
    \/ SearchInitApp
    \/ Search
    \/ GetTermById
    \/ GetTerms
    \/ CallerWrites

SpecCallers == InitFallback /\ [][NextCallers]_vars

\* the funnel over both engines
NextFunnel == Return \/ WriteFile \/ SearchInitApp \/ HpoInitApp \/ SearchFunnel

SpecFunnel == Init /\ [][NextFunnel]_vars

\* the batch resolver over the primary client
InitResolver == Init /\ hpFile.kind = "missing" /\ MEILISEARCH_URL = ""

NextResolver == Return \/ HpoInitApp \/ BuildHpoMatches

SpecResolver == InitResolver /\ [][NextResolver]_vars

\* the primary client alone
InitPrimary == Init /\ hpFile.kind = "missing"

NextPrimary ==
    Return \/ HpoInitApp \/ GetClient \/ EmbedQuery \/ SearchHpo \/ SearchHpoResults

SpecPrimary == InitPrimary /\ [][NextPrimary]_vars

\* every path that hands records to a caller
InitRecords == Init /\ MEILISEARCH_URL = ""

NextRecords ==
    \/ Return
    \/ WriteFile
    \/ Search
    \/ GetTermById
    \/ SearchHpo
    \/ SearchHpoResults

SpecRecords == InitRecords /\ [][NextRecords]_vars

\* the primary search with its debug record, alone and in the batch resolver
NextDebug == Return \/ HpoInitApp \/ SearchHpoResults \/ BuildHpoMatches

SpecDebug == InitPrimary /\ [][NextDebug]_vars

\* the tools of the agent
NextTools == Return \/ HpoInitApp \/ ToolSearchHpo \/ ToolGetHpoTerm

SpecTools == InitPrimary /\ [][NextTools]_vars

\* the HTTP search handlers
InitHttp == Init /\ MEILISEARCH_URL = ""

NextHttp ==
    \/ Return
    \/ WriteFile
    \/ ApiSearch
    \/ WebApiSearchFallback
    \/ MainApiSearchFallback

SpecHttp == InitHttp /\ [][NextHttp]_vars

\* first use of the primary client by several threads at once
InitRace == Init /\ hpFile.kind = "missing" /\ MEILISEARCH_URL = ""

NextRace ==
    \E t \in Threads :
        \/ ThreadCall(t)
        \/ InitAppCheck(t)
        \/ InitAppNewClient(t)
        \/ InitAppConfigureSession(t)
        \/ InitAppIndexOfClient(t)
        \/ InitAppStoreIndex(t)
        \/ InitAppModel(t)
        \/ GetClientCheck(t)
        \/ GetClientReturn(t)
        \/ GetIndexCheck(t)
        \/ GetIndexOfClient(t)
        \/ GetIndexStore(t)
        \/ GetIndexReturn(t)
        \/ ThreadSearch(t)
        \/ ThreadReturn(t)

SpecRace == InitRace /\ [][NextRace]_vars

\* the query normalizers
InitNormalize ==
    Init /\ hpFile.kind = "missing" /\ embEnv = "ok" /\ MEILISEARCH_URL = ""

NextNormalize == Return \/ PrepareSearchQuery \/ NormalizeQuery

SpecNormalize == InitNormalize /\ [][NextNormalize]_vars

\* the normalization of node identifiers
NextCurie == Return \/ CurieFromId

SpecCurie == InitNormalize /\ [][NextCurie]_vars

(***************************************************************************)
(* Properties.                                                             *)
(***************************************************************************)
\* a record of the snapshot matches q: q is a case-insensitive literal
\* substring of its id, name, definition or joined synonyms
MatchesQuery(q, t) ==
    \E f \in {t.hpo_id, t.name, t.definition, t.synonyms_str} :
        Contains(Upper(f), Upper(q))

\* r is snapshot record t as a search emits it: the same id, name and
\* synonyms, and a prefix of its definition
SameRecord(r, t) ==
    /\ r.hpo_id = t.hpo_id
    /\ r.name = t.name
    /\ r.synonyms_str = t.synonyms_str
    /\ r.definition = Prefix(t.definition, Len(r.definition))

FallbackOps == {"init_app", "search", "get_term_by_id"}

\* C1: search_funnel returns a sequence and never propagates an exception,
\* for every query and every limit >= 1, whatever the primary backend does.
C1_FunnelNeverRaises ==
    last.op = "search_funnel" => last.status = "ok"

C3_ResolverRowsAligned ==
    last.op = "_build_hpo_matches"
        => /\ Len(last.matches) = Len(last.terms)
           /\ Len(last.debugs) = Len(last.terms)
           /\ \A i \in 1..Len(last.terms) :
                  /\ last.matches[i].medical_term = last.terms[i]
                  /\ last.debugs[i].term = last.terms[i]

\* the resolver was given the same term twice and returned two rows for it
C3_Witness ==
    /\ last.op = "_build_hpo_matches"
    /\ Len(last.terms) >= 2
    /\ last.terms[1] = last.terms[2]
    /\ Len(last.matches) >= 2
    /\ last.matches[1].medical_term = last.matches[2].medical_term

\* the search of term i yielded no candidate: no hits, or it failed
NoCandidate(i) ==
    \/ last.bks[i].outcome # "ok"
    \/ last.bks[i].hits = <<>>
    \/ last.debugs[i].error # <<>>

\* C4: a term whose search yields no candidate still gets a row, with the
\* original term and empty id, name and definition; no term is dropped.
C4_NoMatchRowKept ==
    last.op = "_build_hpo_matches"
        => /\ Len(last.matches) = Len(last.terms)
           /\ \A i \in 1..Len(last.terms) :
                  NoCandidate(i)
                      => last.matches[i] =
                             [medical_term |-> last.terms[i], hpo_id |-> <<>>,
                              hpo_name |-> <<>>, hpo_definition |-> <<>>]

\* a term with a candidate was followed by one whose search failed
C4_Witness ==
    /\ last.op = "_build_hpo_matches"
    /\ Len(last.terms) = 2
    /\ last.matches[1].hpo_id # <<>>
    /\ last.bks[2].outcome = "unreachable"
    /\ last.matches[2].hpo_id = <<>>
    /\ last.matches[2].medical_term # <<>>

\* C5: every search_funnel call invokes the primary client first with the
\* caller's query; a fallback search is made only after that attempt failed.
C5_PrimaryFirst ==
    last.op = "search_funnel"
        => /\ Len(last.calls) \in {1, 2}
           /\ last.calls[1] = [engine |-> "primary", query |-> last.query]
           /\ \A k \in 2..Len(last.calls) :
                  last.calls[k].engine = "fallback" /\ last.primary = "raise"
           /\ last.primary = "ok" => (last.reads = 0 /\ Len(last.calls) = 1)

\* a funnel call whose primary attempt failed and went on to the fallback,
\* for a query that normalization changes
C5_Witness ==
    /\ last.op = "search_funnel"
    /\ Len(last.calls) = 2
    /\ last.primary = "raise"
    /\ last.calls[2].query # last.query

\* C6: every record returned by a search path or by the lookup has a
\* definition of at most 500 characters.
C6_DefinitionBounded ==
    /\ \A j \in 1..Len(last.results) :
           Len(last.results[j].definition) <= DefinitionLimit
    /\ \A j \in 1..Len(last.found) :
           Len(last.found[j].definition) <= DefinitionLimit

\* C7: lookup_by_id of the canonical id of a snapshot record returns a record
\* with that id.
C7_LookupRoundTrip ==
    (last.op = "get_term_by_id" /\ last.status = "ok")
        => ((\E i \in 1..Len(_terms) : _terms[i].hpo_id = last.term_id)
                => (last.found # <<>> /\ last.found[1].hpo_id = last.term_id))

\* C8: with the snapshot source file missing or unparseable, loading,
\* searching and looking up do not raise; the snapshot stays empty, a search
\* returns nothing and a lookup reports absence.
C8_BadFileNotFatal ==
    (last.op \in FallbackOps /\ ~last.populated
        /\ hpFile.kind \in {"missing", "unparseable"})
        => /\ last.status = "ok"
           /\ _terms = <<>>
           /\ last.results = <<>>
           /\ last.found = <<>>

\* C9: once the snapshot is populated, no step changes its contents or order
\* and no call reads the source file again.
C9_LoadIdempotent ==
    [][_terms # <<>> => (_terms' = _terms /\ last'.reads = 0)]_vars

\* an init_app, search or lookup ran on a populated snapshot while the file
\* on disk no longer was what had been loaded
C9_Witness ==
    /\ last.op \in FallbackOps
    /\ last.populated
    /\ hpFile.kind = "ok"
    /\ _terms # _parse_obographs(hpFile.nodes)

\* C10: normalizing a normalized query changes nothing.
C10_NormalizeIdempotent ==
    /\ last.op = "prepare_search_query" => prepare_search_query(last.text) = last.text
    /\ last.op = "_normalize_query" => _normalize_query(last.text) = last.text

\* a query with a run of three whitespace characters between two tokens was
\* normalized
C10_Witness ==
    /\ last.op = "prepare_search_query"
    /\ Len(last.query) = 5
    /\ ~IsSpace(last.query[1])
    /\ IsSpace(last.query[2]) /\ IsSpace(last.query[3]) /\ IsSpace(last.query[4])
    /\ ~IsSpace(last.query[5])
    /\ Len(last.text) = 3

\* the non-whitespace characters of s, in order
NonSpace(s) == SelectSeq(s, LAMBDA c : ~IsSpace(c))

\* the position in s of its k-th non-whitespace character
NonSpacePos(s, k) ==
    CHOOSE i \in 1..Len(s) :
        /\ ~IsSpace(s[i])
        /\ Cardinality({j \in 1..(i - 1) : ~IsSpace(s[j])}) = k - 1

\* out is the whitespace-separated tokens of s joined by single spaces: the
\* same non-whitespace characters in the same order, two of them adjacent in
\* out exactly when they are adjacent in s, every separator one " ", none at
\* either end
IsTokensJoined(s, out) ==
    /\ NonSpace(out) = NonSpace(s)
    /\ \A i \in 1..Len(out) : IsSpace(out[i]) => out[i] = " "
    /\ out # <<>> => (~IsSpace(out[1]) /\ ~IsSpace(out[Len(out)]))
    /\ \A i \in 1..(Len(out) - 1) : ~(IsSpace(out[i]) /\ IsSpace(out[i + 1]))
    /\ \A k \in 1..(Len(NonSpace(s)) - 1) :
           (NonSpacePos(out, k + 1) = NonSpacePos(out, k) + 1)
               <=> (NonSpacePos(s, k + 1) = NonSpacePos(s, k) + 1)

MatchIdx(q) == {i \in 1..Len(_terms) : MatchesQuery(q, _terms[i])}

\* the position of the k-th snapshot record matching q
KthMatch(q, k) ==
    CHOOSE i \in MatchIdx(q) : Cardinality({j \in MatchIdx(q) : j < i}) = k - 1

\* the results of the last search are the first last.limit snapshot records
\* matching q, in snapshot order
ReturnsFirstMatches(q) ==
    /\ Len(last.results) =
           IF Cardinality(MatchIdx(q)) <= last.limit
           THEN Cardinality(MatchIdx(q)) ELSE last.limit
    /\ \A k \in 1..Len(last.results) :
           SameRecord(last.results[k], _terms[KthMatch(q, k)])

\* C12 as claimed: for a query with a non-whitespace character and limit >= 1
\* the fallback search returns the first limit records, in snapshot order,
\* among those holding the query as given as a case-insensitive substring.
C12_SearchFirstMatchesOfQuery ==
    (last.op = "search" /\ last.status = "ok" /\ last.limit >= 1
        /\ Strip(last.query) # <<>>)
        => ReturnsFirstMatches(last.query)

\* C12 as amended: for a query with a non-whitespace character and limit >= 1
\* the fallback search returns the first limit records, in snapshot order,
\* among those holding the query without its leading and trailing
\* whitespace as a case-insensitive substring.
C12_SearchFirstMatchesOfTrimmed ==
    (last.op = "search" /\ last.status = "ok" /\ last.limit >= 1
        /\ Strip(last.query) # <<>>)
        => ReturnsFirstMatches(Strip(last.query))

\* a search with limit 1 for a query with whitespace around it, which two
\* snapshot records match once it is trimmed: the second was left out
C12_Witness ==
    /\ last.op = "search"
    /\ last.status = "ok"
    /\ last.limit = 1
    /\ Strip(last.query) # last.query
    /\ Cardinality(MatchIdx(Strip(last.query))) >= 2
    /\ Len(last.results) = 1
    /\ last.results[1].hpo_id = _terms[1].hpo_id

\* C13: for an empty or whitespace-only query the fallback search on a
\* snapshot of n records returns the first min(limit, n) records of the
\* snapshot, unfiltered and in load order.
C13_BrowseFirstRecords ==
    (last.op = "search" /\ last.status = "ok" /\ Strip(last.query) = <<>>)
        => last.results =
               SubSeq(_terms, 1, IF last.limit <= Len(_terms)
                                 THEN last.limit ELSE Len(_terms))

\* a whitespace-only query browsed a snapshot of more records than the limit
C13_Witness ==
    /\ last.op = "search"
    /\ last.status = "ok"
    /\ last.query = <<" ", "\t">>
    /\ last.limit = 1
    /\ Len(_terms) >= 2
    /\ last.results = <<_terms[1]>>

\* C14: every record of the snapshot and every record a search or the lookup
\* returns has a non-empty id; a node whose id resolves to the empty id is
\* left out when the snapshot is built.
C14_IdsNonEmpty ==
    /\ \A i \in 1..Len(_terms) : _terms[i].hpo_id # <<>>
    /\ \A j \in 1..Len(last.results) : last.results[j].hpo_id # <<>>
    /\ \A j \in 1..Len(last.found) : last.found[j].hpo_id # <<>>

FourKeys == {"hpo_id", "name", "definition", "synonyms_str"}

\* C15: every record returned by the primary search, by the fallback search
\* (empty or non-empty query) and by the lookup is a mapping with exactly the
\* keys hpo_id, name, definition and synonyms_str.
C15_FourKeys ==
    last.op \in {"search_hpo", "search_hpo_results", "search", "get_term_by_id"}
        => /\ \A j \in 1..Len(last.results) : DOMAIN last.results[j] = FourKeys
           /\ \A j \in 1..Len(last.found) : DOMAIN last.found[j] = FourKeys

\* the primary search returned a record for a hit that has a fifth key, id
C15_Witness ==
    /\ last.op = "search_hpo"
    /\ last.status = "ok"
    /\ last.results # <<>>
    /\ "id" \in DOMAIN last.bks[1].hits[1]
    /\ last.results[1].hpo_id = last.bks[1].hits[1].hpo_id

\* the search of term i answered with at least one result
HasResults(i) ==
    /\ last.debugs[i].error = <<>>
    /\ last.bks[i].outcome = "ok"
    /\ last.bks[i].hits # <<>>

\* C16: for every term with at least one search result the match row holds
\* the id, name and definition of the result at index 0, the first hit of
\* the backend's answer, and of no other result.
C16_TopCandidateKept ==
    last.op = "_build_hpo_matches"
        => \A i \in 1..Len(last.terms) :
               HasResults(i)
                   => /\ last.matches[i].hpo_id = last.bks[i].hits[1].hpo_id
                      /\ last.matches[i].hpo_name = last.bks[i].hits[1].name
                      /\ last.matches[i].hpo_definition =
                             SubSeq(last.bks[i].hits[1].definition, 1,
                                    IF Len(last.bks[i].hits[1].definition) <= 500
                                    THEN Len(last.bks[i].hits[1].definition) ELSE 500)
                      /\ last.debugs[i].top_result # <<>>
                      /\ last.debugs[i].top_result[1].hpo_id = last.matches[i].hpo_id

\* a term whose search returned two results got the row of the first
C16_Witness ==
    /\ last.op = "_build_hpo_matches"
    /\ Len(last.terms) >= 1
    /\ HasResults(1)
    /\ Len(last.bks[1].hits) = 2
    /\ last.bks[1].hits[1].hpo_id # last.bks[1].hits[2].hpo_id
    /\ last.matches[1].hpo_id = last.bks[1].hits[1].hpo_id

\* term i has a non-whitespace character, so a search is attempted for it
Searched(i) == \E k \in 1..Len(last.terms[i]) : ~IsSpace(last.terms[i][k])

\* the primary search of term i fails: the client is built in this search and
\* the load of the embedding model raises, or encoding the query raises, or
\* the backend is unreachable or answers with something unusable
SearchFails(i) ==
    /\ Searched(i)
    /\ \/ /\ ~last.had_index
          /\ embEnv = "loadfails"
          /\ \A k \in 1..(i - 1) : ~Searched(k)
       \/ last.bks[i].embed = "error" /\ _embedding_model # "None"
       \/ last.bks[i].outcome # "ok"

\* C17: for every term whose primary search fails the batch resolver still
\* produces the debug record of that term, with its error set; for a term
\* whose primary search succeeds the error is null.
C17_DebugErrorOnFailure ==
    last.op = "_build_hpo_matches"
        => /\ Len(last.debugs) = Len(last.terms)
           /\ \A i \in 1..Len(last.terms) :
                  /\ SearchFails(i)
                         => (last.debugs[i].term = last.terms[i]
                                /\ last.debugs[i].error # <<>>)
                  /\ (Searched(i) /\ ~SearchFails(i))
                         => last.debugs[i].error = <<>>

\* the search of the first term failed on an unreachable backend and that
\* of the second succeeded
C17_Witness ==
    /\ last.op = "_build_hpo_matches"
    /\ Len(last.terms) = 2
    /\ last.bks[1].outcome = "unreachable"
    /\ last.debugs[1].error # <<>>
    /\ Searched(2) /\ ~SearchFails(2)
    /\ last.debugs[2].error = <<>>
    /\ last.debugs[2].hit_count >= 1

\* C18: with MEILISEARCH_URL unset or empty, get_client raises to its caller
\* and returns no client.
C18_NoUrlRaises ==
    (last.op = "get_client" /\ MEILISEARCH_URL = "")
        => (last.status = "raise" /\ last.client = "None")

\* C19: when the embedding model is not installed or fails to load,
\* init_app completes without raising and the model stays absent: every
\* _embed_query returns None and every request of a primary search is
\* lexical-only, whatever was called before.
C19_EmbeddingAbsentForGood ==
    embEnv # "ok"
        => /\ last.op = "hpo_init_app" => last.status = "ok"
           /\ _embedding_model = "None"
           /\ last.op = "_embed_query" => last.embedded = "None"
           /\ (last.op \in {"search_hpo", "search_hpo_results"} /\ last.request.sent)
                  => last.request.params.keys = {"limit"}

\* C20: a query that is empty after normalization is no error on any search
\* path: the fallback browses, the primary searches send the trimmed string
\* to the backend, and a backend that answers leaves no error in the result
\* or its debug info.
C20_EmptyQueryNoError ==
    (Strip(last.query) = <<>> /\ embEnv # "loadfails")
        => /\ (last.op = "search" /\ last.status = "ok")
                  => last.results = SubSeq(_terms, 1,
                                           IF last.limit <= Len(_terms)
                                           THEN last.limit ELSE Len(_terms))
           /\ (last.op = "search_hpo" /\ last.bks[1].outcome = "ok")
                  => /\ last.status = "ok"
                     /\ last.request.sent
                     /\ last.request.q = <<>>
           /\ (last.op = "search_hpo_results" /\ last.bks[1].outcome = "ok")
                  => /\ last.debug[1].error = <<>>
                     /\ last.request.sent
                     /\ last.request.q = <<>>

\* no thread is inside app/hpo.py
Quiescent == \A t \in Threads : threads[t].pc \in {"idle", "done", "raised"}

\* the cached index is an index of the cached client, and that client has
\* its session configured
CachedHandlesConsistent ==
    _client # "None"
        => /\ _client \in configured
           /\ _index # "None" => _index = IndexOf(_client)

\* every search a thread has sent went through an index whose client had its
\* session configured
SearchedThroughConfigured ==
    \A t \in Threads : threads[t].searched # "None" => threads[t].configured

\* C21: however the threads that first use the primary client interleave,
\* once they are through the cached index belongs to the cached client and
\* that client has its session configured, and no thread sends a search
\* through a handle that is not fully initialised.
C21_RaceSafeInit ==
    /\ Quiescent => CachedHandlesConsistent
    /\ SearchedThroughConfigured

\* the primary search of the last request failed
PrimaryFailed ==
    \/ last.bks[1].outcome # "ok"
    \/ ~last.had_index /\ embEnv = "loadfails"
    \/ (last.bks[1].embed = "error" /\ _embedding_model # "None"
           /\ Strip(last.query) # <<>>)

\* the fallback has nothing to give: no snapshot is loaded and data/hp.json
\* has none to load
NoFallbackResult ==
    /\ _terms = <<>>
    /\ hpFile.kind # "ok" \/ hpFile.nodes = <<>>

\* C22: a search request that hits a fully degraded funnel, the primary
\* search failing and no fallback result available, is answered 200 with an
\* empty result list, never with an error response.
C22_DegradedAnswersEmpty ==
    /\ (last.op \in {"web_api_search_fallback", "main_api_search_fallback"}
           /\ PrimaryFailed /\ NoFallbackResult)
           => (last.code = 200 /\ last.results = <<>>)
    /\ (last.op = "api_search" /\ NoFallbackResult)
           => (last.code = 200 /\ last.results = <<>>)

ProviderGaveVector ==
    /\ _embedding_model # "None"
    /\ last.bks[1].embed = "ok"
    /\ \E k \in 1..Len(last.query) : ~IsSpace(last.query[k])

\* C24: the request sent to the backend carries a vector and a hybrid
\* embedder name exactly when the embedding provider returned a vector for
\* the query; otherwise it carries the query and the limit only; vector and
\* hybrid are never present one without the other.
C24_HybridIffVector ==
    (last.op \in {"search_hpo", "search_hpo_results"} /\ last.request.sent)
        => /\ ProviderGaveVector
                  => /\ last.request.params.keys = {"limit", "vector", "hybrid"}
                     /\ last.request.params.vector = "raw"
                     /\ last.request.params.embedder = "all-MiniLM-L6-v2"
           /\ ~ProviderGaveVector => last.request.params.keys = {"limit"}
           /\ "vector" \in last.request.params.keys
                  <=> "hybrid" \in last.request.params.keys
           /\ last.request.params.limit = last.limit

\* a search embedded its query and sent a hybrid request
C24_Witness ==
    /\ last.op = "search_hpo"
    /\ last.request.sent
    /\ ProviderGaveVector
    /\ last.request.params.keys = {"limit", "vector", "hybrid"}

\* C26: the search parameters of a debug record of search_hpo_results never
\* hold the raw embedding vector: when a vector was used they hold the
\* dimension-count placeholder, and the request sent holds the full vector.
C26_DebugVectorRedacted ==
    last.op = "search_hpo_results"
        => /\ last.debug[1].search_params.vector # "raw"
           /\ (last.request.sent /\ "vector" \in last.request.params.keys)
                  => /\ last.request.params.vector = "raw"
                     /\ last.debug[1].search_params.vector = "dims"
                     /\ "vector" \in last.debug[1].search_params.keys
           /\ (last.request.sent /\ "vector" \notin last.request.params.keys)
                  => "vector" \notin last.debug[1].search_params.keys

\* search_hpo_results sent a request with a vector and left its debug record
C26_Witness ==
    /\ last.op = "search_hpo_results"
    /\ last.request.sent
    /\ last.request.params.vector = "raw"
    /\ last.debug[1].search_params.vector = "dims"
    /\ last.debug[1].error = <<>>

\* C25: once the snapshot is loaded, no operation of the module and nothing
\* a caller does with the records it was handed changes the records of the
\* snapshot or their order.
C25_SnapshotImmutable ==
    [][_terms # <<>> => _terms' = _terms]_vars

\* the lookup of the last call failed: the client could not be built or the
\* backend did not answer with a document
LookupFailed ==
    /\ \E k \in 1..Len(last.term_id) : ~IsSpace(last.term_id[k])
    /\ \/ last.bks[1].outcome # "ok"
       \/ ~last.had_index /\ embEnv = "loadfails"

\* the index holds a document for the id of the last lookup, given with a
\* colon or with an underscore
TermInIndex ==
    \E d \in IndexDocs : d.id = ReplaceFirst(Strip(last.term_id), ":", <<"_">>)

\* C27 as claimed: the tools never raise; when the underlying search or
\* lookup fails they return an error message, and get_hpo_term returns the
\* not-found message when no term has the id.
C27_ToolsReturnErrorMessage ==
    /\ last.op \in {"tool_search_hpo", "tool_get_hpo_term"} => last.status = "ok"
    /\ (last.op = "tool_search_hpo" /\ PrimaryFailed) => last.kind = "error"
    /\ (last.op = "tool_get_hpo_term" /\ LookupFailed) => last.kind = "error"
    /\ (last.op = "tool_get_hpo_term" /\ ~LookupFailed /\ ~TermInIndex)
           => last.kind = "not_found"

\* C27 as amended: the tools never raise; search_hpo returns an error message
\* when the search fails; get_hpo_term returns the not-found message when no
\* term has the id and also when the lookup fails, and the JSON of the term
\* otherwise.
C27_ToolsNeverRaise ==
    /\ last.op \in {"tool_search_hpo", "tool_get_hpo_term"} => last.status = "ok"
    /\ last.op = "tool_search_hpo"
           => (IF PrimaryFailed THEN last.kind = "error" ELSE last.kind = "json")
    /\ last.op = "tool_get_hpo_term"
           => (IF LookupFailed \/ ~TermInIndex THEN last.kind = "not_found"
               ELSE last.kind = "json" /\ last.found # <<>>)

\* get_hpo_term was asked for a term the index holds while the backend was
\* unreachable, and answered that no term was found
C27_Witness ==
    /\ last.op = "tool_get_hpo_term"
    /\ last.bks[1].outcome = "unreachable"
    /\ TermInIndex
    /\ last.kind = "not_found"

\* row i of the batch resolver has a field that is not the placeholder
RowFilled(i) ==
    \/ last.matches[i].hpo_id # <<>>
    \/ last.matches[i].hpo_name # <<>>
    \/ last.matches[i].hpo_definition # <<>>

\* C28: on every return path of search_hpo_results the debug hit_count is the
\* number of results returned and query_sent is the normalized query; in the
\* batch resolver the debug top_result of a term is set exactly when its
\* match row has non-placeholder fields, which are those of that result.
C28_DebugMatchesResults ==
    /\ last.op = "search_hpo_results"
           => /\ last.debug[1].hit_count = Len(last.results)
              /\ last.debug[1].query_sent = prepare_search_query(last.query)
    /\ last.op = "_build_hpo_matches"
           => \A i \in 1..Len(last.terms) :
                  /\ (last.debugs[i].top_result # <<>>) <=> RowFilled(i)
                  /\ last.debugs[i].top_result # <<>>
                         => /\ last.matches[i].hpo_id = last.debugs[i].top_result[1].hpo_id
                            /\ last.matches[i].hpo_name = last.debugs[i].top_result[1].name
                            /\ last.matches[i].hpo_definition =
                                   last.debugs[i].top_result[1].definition

\* C29: for every query and every limit >= 0 the fallback search returns at
\* most limit records, so none when limit is 0.
C29_AtMostLimit ==
    (last.op = "search" /\ last.status = "ok" /\ last.limit >= 0)
        => Len(last.results) <= last.limit

\* C30: the URI form and the bare underscore form of an identifier are mapped
\* to the same canonical id, which is colon-delimited, and an id already in
\* the colon form is left unchanged.
C30_SourceFormIndependent ==
    last.op = "_curie_from_id"
        => \A ns \in Namespaces, n \in Numbers :
               /\ last.term_id \in {UriForm(Iri, ns, n), UriForm(OtherIri, ns, n),
                                    BareForm(ns, n)}
                      => /\ last.text = _curie_from_id(BareForm(ns, n))
                         /\ last.text = _curie_from_id(UriForm(Iri, ns, n))
                         /\ Len(last.text) = Len(ns) + 1 + Len(n)
                         /\ last.text[Len(ns) + 1] = ":"
               /\ last.term_id = ColonForm(ns, n) => last.text = last.term_id

====
